---- MODULE Spec2Model ----
(***************************************************************************)
(* Device Authorization Grant handlers of dex (server/deviceHandlers.go),  *)
(* the request limiter (server/limiter) and its middleware.                *)
(*                                                                         *)
(* Time is counted in ticks, TicksPerSecond ticks to the second, so that   *)
(* a time.Duration which is not a whole number of seconds can be told from *)
(* its int(d.Seconds()) truncation.  The device handlers only ever add     *)
(* whole seconds to instants, and their clock advances second by second.   *)
(*                                                                         *)
(* A handler is a sequence of steps, one per call into the shared store;   *)
(* handlers of different workers interleave between steps.  The response   *)
(* writer w of a handler is the sequence of writes the handler makes, in   *)
(* order: net/http sends the status of the first write and appends the     *)
(* bodies of the later ones.                                               *)
(***************************************************************************)
EXTENDS Integers, Sequences, FiniteSets, TLC

VARIABLES now, validFor, deviceRequests, deviceTokens, frame, delivered, trace,
          attached, limiter, requestLimits, mw, served, lastUpdate

vars == <<now, validFor, deviceRequests, deviceTokens, frame, delivered, trace,
          attached, limiter, requestLimits, mw, served, lastUpdate>>

deviceVars ==
    <<validFor, deviceRequests, deviceTokens, frame, delivered, trace, attached>>

limiterVars == <<limiter, requestLimits, mw, served, lastUpdate>>

-----------------------------------------------------------------------------
(* Bounds of the model *)

TicksPerSecond == 2

\* Spec: two workers, one device, a short validity
MaxTime == 2

ValidFor == 1

\* SpecSeq: one worker, one device, the clock runs past the S2 scenario
MaxTimeSeq == 13

ValidForSeq == 12

MaxTrace == 4

\* D5 is not started on a record whose stored interval has reached this
MaxPollInterval == 10

MaxPollIntervalSeq == 20

\* SpecLimiter: the clock, in ticks; the base intervals and the expiry, in ticks;
\* no request is taken for a key whose stored interval has reached MaxInterval
MaxTimeLimiter == 5

MaxBaseInterval == 3

ExpireTicks == 4

MaxInterval == 3

-----------------------------------------------------------------------------
(* Program constants *)

InitialPollInterval == 5

PollIncrement == 5

PollReset == 5

deviceTokenPending == "authorization_pending"

deviceTokenComplete == "complete"

deviceTokenSlowDown == "slow_down"

deviceTokenExpired == "expired_token"

errInvalidRequest == "invalid_request"

errInvalidGrant == "invalid_grant"

errServerError == "server_error"

-----------------------------------------------------------------------------
(* Values *)

Procs == {"w1", "w2"}

ProcsSeq == {"w1"}

UserCodes == {"U1"}

DeviceCodes == {"D1"}

AuthCodes == {"ac1", "ac2"}

ClientIDs == {"c1"}

\* time.Time{}: before every instant of the clock
ZeroTime == 0 - 1

Seconds(n) == n * TicksPerSecond

\* Time.After, Time.Before
After(t, u) == t > u

Before(t, u) == t < u

\* strings.ToUpper on the user codes the model submits
ToUpper(s) ==
    CASE s = "u1" -> "U1"
      [] s = "zz" -> "ZZ"
      [] OTHER -> s

\* the body json.MarshalIndent makes of the token response minted for an auth code
TokenOf(code) ==
    CASE code = "ac1" -> "token_ac1"
      [] code = "ac2" -> "token_ac2"
      [] OTHER -> "token"

\* storage.ErrNotFound, storage.ErrAlreadyExists, any other error of the store, nil
ErrNotFound == "not found"

ErrAlreadyExists == "already exists"

ErrOther == "error"

Nil == "nil"

ZeroDeviceRequest ==
    [UserCode |-> "", DeviceCode |-> "", ClientID |-> "", Expiry |-> ZeroTime]

ZeroDeviceToken ==
    [DeviceCode |-> "", Status |-> "", Token |-> "", Expiry |-> ZeroTime,
     LastRequestTime |-> ZeroTime, PollIntervalSeconds |-> 0]

\* one write to the http.ResponseWriter
Write(kind, status, body) == [kind |-> kind, status |-> status, body |-> body]

tokenErrHelper(typ, status) == Write("tokenErr", status, typ)

renderError(status) == Write("renderError", status, "")

\* the status line net/http sends: that of the first write
HttpStatus(w) == IF w = <<>> THEN 0 ELSE w[1].status

\* a handler's locals: the step it is at, its inputs, what it read, what it wrote,
\* the err of its last call into the store, and the step it returned from
IdleFrame ==
    [pc |-> "idle", handler |-> "none", userCode |-> "", deviceCode |-> "",
     code |-> "", now |-> ZeroTime, expireTime |-> ZeroTime, pollInterval |-> 0,
     deviceToken |-> ZeroDeviceToken, w |-> <<>>, err |-> Nil, step |-> ""]

\* a worker takes a new request when it has none in hand
Free(p) == frame[p].pc = "idle"

\* the handler returns from step, having written w
Done(f, step, w) == [f EXCEPT !.pc = "done", !.step = step, !.w = w]

\* the worker goes on to f, its next step; a handler that has returned leaves the
\* worker idle, and its request, as served, is the one delivered by this step
Goto(p, f) ==
    IF f.pc = "done"
    THEN /\ frame' = [frame EXCEPT ![p] = IdleFrame]
         /\ delivered' = f
    ELSE /\ frame' = [frame EXCEPT ![p] = [f EXCEPT !.err = Nil]]
         /\ delivered' = IdleFrame

\* the run's record, where one is kept, of the device codes issued and of the polls
\* that reached the stored record, in the order they were served
Event(f) ==
    [handler |-> f.handler, now |-> f.now, status |-> f.deviceToken.Status,
     w |-> f.w,
     stored |-> IF f.handler = "D1" THEN InitialPollInterval
                ELSE IF f.deviceToken.Status = deviceTokenPending THEN f.pollInterval
                ELSE f.deviceToken.PollIntervalSeconds]

Record(K, f) == IF K.log /\ f.err # ErrOther THEN Append(trace, Event(f)) ELSE trace

\* a run that keeps a record ends when the record is full
Room(K) == K.log => Len(trace) < MaxTrace

\* the successful D4 updates of a stored DeviceToken since it was created: how
\* many (2 for two or more), and the token the first of them stored
NoneAttached == [n |-> 0, token |-> ""]

Attach(a, token) ==
    IF a.n = 0 THEN [n |-> 1, token |-> token] ELSE [n |-> 2, token |-> a.token]

\* Spec: every request, well formed or not, and a store that may fail
Cfg == [procs |-> Procs, uc |-> UserCodes, dc |-> DeviceCodes, log |-> FALSE,
        plain |-> FALSE, maxTime |-> MaxTime, maxPoll |-> MaxPollInterval]

\* SpecSeq: well formed requests and a store that answers, over a long time
CfgSeq == [procs |-> ProcsSeq, uc |-> UserCodes, dc |-> DeviceCodes, log |-> FALSE,
           plain |-> TRUE, maxTime |-> MaxTimeSeq, maxPoll |-> MaxPollIntervalSeq]

\* SpecPoll: the same, D1 and D5 alone, and a record of the run
CfgPoll == [procs |-> ProcsSeq, uc |-> UserCodes, dc |-> DeviceCodes, log |-> TRUE,
            plain |-> TRUE, maxTime |-> MaxTimeSeq, maxPoll |-> MaxPollIntervalSeq]

\* whether a call into the store fails with an error of its own
Faults(K) == IF K.plain THEN {FALSE} ELSE BOOLEAN

-----------------------------------------------------------------------------
(* The store (storage.Storage): keyed records, conditional updates *)

GetDeviceRequest(userCode, fault) ==
    IF fault THEN [rec |-> ZeroDeviceRequest, err |-> ErrOther]
    ELSE IF userCode \notin DOMAIN deviceRequests
            \/ deviceRequests[userCode].UserCode = ""
    THEN [rec |-> ZeroDeviceRequest, err |-> ErrNotFound]
    ELSE [rec |-> deviceRequests[userCode], err |-> Nil]

GetDeviceToken(deviceCode, fault) ==
    IF fault THEN [rec |-> ZeroDeviceToken, err |-> ErrOther]
    ELSE IF deviceCode \notin DOMAIN deviceTokens
            \/ deviceTokens[deviceCode].DeviceCode = ""
    THEN [rec |-> ZeroDeviceToken, err |-> ErrNotFound]
    ELSE [rec |-> deviceTokens[deviceCode], err |-> Nil]

\* Create fails on a key that is already stored
CreateDeviceRequestErr(d, fault) ==
    IF fault THEN ErrOther
    ELSE IF deviceRequests[d.UserCode].UserCode # "" THEN ErrAlreadyExists
    ELSE Nil

CreateDeviceTokenErr(t, fault) ==
    IF fault THEN ErrOther
    ELSE IF deviceTokens[t.DeviceCode].DeviceCode # "" THEN ErrAlreadyExists
    ELSE Nil

\* Update(key, updater): the updater, a function of the record, is applied to the
\* record as stored, and its result is stored, in one step; an updater's error
\* leaves the record as it was
UpdateDeviceToken(deviceCode, updater, fault) ==
    LET cur == GetDeviceToken(deviceCode, fault)
        r == updater[cur.rec]
    IN  IF cur.err # Nil THEN [tokens |-> deviceTokens, err |-> cur.err]
        ELSE IF r.err # Nil THEN [tokens |-> deviceTokens, err |-> r.err]
        ELSE [tokens |-> [deviceTokens EXCEPT ![deviceCode] = r.rec], err |-> Nil]

-----------------------------------------------------------------------------
(* D1  POST /device/code *)

D1ParseError(p, K) ==
    /\ Free(p)
    /\ Goto(p, Done([IdleFrame EXCEPT !.handler = "D1"], "ParseForm",
                    <<tokenErrHelper(errInvalidRequest, 400)>>))
    /\ UNCHANGED <<now, validFor, deviceRequests, deviceTokens, trace, attached,
                   limiterVars>>

\* up to and including CreateDeviceRequest; NewUserCode and NewDeviceCode return
\* what they will
D1CreateRequest(p, K) ==
    /\ Free(p)
    /\ Room(K)
    /\ \E userCode \in K.uc, deviceCode \in K.dc, clientID \in ClientIDs,
          fault \in Faults(K) :
        LET expireTime == now + Seconds(validFor)
            deviceReq == [UserCode |-> userCode, DeviceCode |-> deviceCode,
                          ClientID |-> clientID, Expiry |-> expireTime]
            err == CreateDeviceRequestErr(deviceReq, fault)
            f == [IdleFrame EXCEPT !.handler = "D1", !.userCode = userCode,
                                   !.deviceCode = deviceCode,
                                   !.expireTime = expireTime, !.err = err]
        IN  IF err # Nil
            THEN /\ Goto(p, Done(f, "CreateDeviceRequest",
                                 <<tokenErrHelper(errServerError, 500)>>))
                 /\ UNCHANGED deviceRequests
            ELSE /\ deviceRequests' = [deviceRequests EXCEPT ![userCode] = deviceReq]
                 /\ Goto(p, [f EXCEPT !.pc = "d1_token"])
    /\ UNCHANGED <<now, validFor, deviceTokens, trace, attached, limiterVars>>

\* CreateDeviceToken and the response
D1CreateToken(p, K) ==
    /\ frame[p].pc = "d1_token"
    /\ \E fault \in Faults(K) :
        LET deviceToken == [DeviceCode |-> frame[p].deviceCode,
                            Status |-> deviceTokenPending,
                            Token |-> "",
                            Expiry |-> frame[p].expireTime,
                            LastRequestTime |-> now,
                            PollIntervalSeconds |-> InitialPollInterval]
            err == CreateDeviceTokenErr(deviceToken, fault)
            f == [frame[p] EXCEPT !.err = err, !.now = now]
            ok == Done(f, "Encode", <<Write("deviceCodeResponse", 200, f.userCode)>>)
        IN  IF err # Nil
            THEN /\ Goto(p, Done(f, "CreateDeviceToken",
                                 <<tokenErrHelper(errServerError, 500)>>))
                 /\ UNCHANGED <<deviceTokens, trace, attached>>
            ELSE /\ deviceTokens' = [deviceTokens EXCEPT ![f.deviceCode] = deviceToken]
                 /\ attached' = [attached EXCEPT ![f.deviceCode] = NoneAttached]
                 /\ Goto(p, ok)
                 /\ trace' = Record(K, ok)
    /\ UNCHANGED <<now, validFor, deviceRequests, limiterVars>>

-----------------------------------------------------------------------------
(* D3  POST /device/auth/verify_code *)

\* the requests: a body that does not parse, no user code, or a user code (as
\* stored, in lower case, or unknown) with the store answering or failing
VerifyInputs(K) ==
    IF K.plain THEN [parseOk : {TRUE}, userCode : K.uc \cup {"u1"}, fault : {FALSE}]
    ELSE
    {[parseOk |-> FALSE, userCode |-> "", fault |-> FALSE],
     [parseOk |-> TRUE, userCode |-> "", fault |-> FALSE]}
    \cup [parseOk : {TRUE}, userCode : K.uc \cup {"u1", "zz"}, fault : {FALSE}]
    \cup {[parseOk |-> TRUE, userCode |-> "U1", fault |-> TRUE]}

verifyUserCode(p, K) ==
    /\ Free(p)
    /\ \E in \in VerifyInputs(K) :
        LET userCode == ToUpper(in.userCode)
            got == GetDeviceRequest(userCode, in.fault)
            f == [IdleFrame EXCEPT !.handler = "D3"]
            g == [f EXCEPT !.userCode = userCode, !.now = now, !.err = got.err]
            page == Write("device", 200, "invalid")
        IN  Goto(p,
              IF ~in.parseOk
              THEN Done(f, "ParseForm", <<tokenErrHelper(errInvalidRequest, 400)>>)
              ELSE IF in.userCode = ""
              THEN Done(f, "user_code", <<renderError(400)>>)
              ELSE IF got.err # Nil \/ After(now, got.rec.Expiry)
              THEN IF got.err # ErrNotFound
                   THEN Done(g, "GetDeviceRequest",
                             <<tokenErrHelper(errServerError, 500), page>>)
                   ELSE Done(g, "GetDeviceRequest", <<page>>)
              ELSE Done(g, "Redirect", <<Write("redirect", 302, got.rec.UserCode)>>))
    /\ UNCHANGED <<now, validFor, deviceRequests, deviceTokens, trace, attached,
                   limiterVars>>

-----------------------------------------------------------------------------
(* D4  GET /device/callback *)

\* an updater that also starts the polling interval again
D4UpdaterResetsInterval(old, resp) ==
    IF old.Status = deviceTokenComplete
    THEN [rec |-> old, err |-> "device token already complete"]
    ELSE [rec |-> [old EXCEPT !.Token = resp, !.Status = deviceTokenComplete,
                              !.PollIntervalSeconds = PollReset,
                              !.LastRequestTime = ZeroTime],
          err |-> Nil]

\* an updater without the test of the status: it attaches whatever it is given
D4UpdaterNoCheck(old, resp) ==
    [rec |-> [old EXCEPT !.Token = resp, !.Status = deviceTokenComplete],
     err |-> Nil]

\* an updater that replaces the token of a record that is complete
D4UpdaterReplace(old, resp) ==
    IF old.Status = deviceTokenComplete
    THEN [rec |-> [old EXCEPT !.Token = resp], err |-> Nil]
    ELSE [rec |-> [old EXCEPT !.Token = resp, !.Status = deviceTokenComplete],
          err |-> Nil]

\* the updater of handleDeviceCallback: refuses a record that is complete
D4Updater(old, resp) ==
    IF old.Status = deviceTokenComplete
    THEN [rec |-> old, err |-> "device token already complete"]
    ELSE [rec |-> [old EXCEPT !.Token = resp, !.Status = deviceTokenComplete],
          err |-> Nil]

\* the requests: a parameter missing, or both given and what the request meets
\* first: an error parameter, an auth code that is unknown or expired, a store
\* that fails on GetDeviceRequest, a client that is unknown, an exchange that
\* fails, or none of these
CallbackInputs(K) ==
    IF K.plain THEN [state : K.uc, code : AuthCodes, env : {"ok"}]
    ELSE
    {[state |-> "", code |-> "ac1", env |-> "ok"],
     [state |-> "U1", code |-> "", env |-> "ok"]}
    \cup [state : {"U1"}, code : {"ac1"},
          env : {"error", "auth code", "fault", "client", "exchange"}]
    \cup [state : K.uc \cup {"ZZ"}, code : AuthCodes, env : {"ok"}]

\* the parameters, the auth code, GetDeviceRequest, the client and the exchange.
\* The auth code store, the client store and exchangeAuthCode answer as they will.
D4Begin(p, K) ==
    /\ Free(p)
    /\ \E in \in CallbackInputs(K) :
        LET got == GetDeviceRequest(in.state, in.env = "fault")
            f == [IdleFrame EXCEPT !.handler = "D4", !.userCode = in.state,
                                   !.code = in.code]
            g == [f EXCEPT !.err = got.err]
        IN  Goto(p,
              IF in.state = "" \/ in.code = ""
              THEN Done(f, "parameters", <<renderError(400)>>)
              ELSE IF in.env = "error"
              THEN Done(f, "error", <<Write("httpError", 400, "error")>>)
              ELSE IF in.env = "auth code"
              THEN Done(f, "GetAuthCode", <<renderError(400)>>)
              ELSE IF got.err # Nil \/ After(now, got.rec.Expiry)
              THEN Done(g, "GetDeviceRequest", <<renderError(500)>>)
              ELSE IF in.env = "client"
              THEN Done(g, "GetClient", <<renderError(500)>>)
              ELSE IF in.env = "exchange"
              THEN Done(g, "exchangeAuthCode", <<renderError(500)>>)
              ELSE [g EXCEPT !.pc = "d4_gettoken",
                             !.deviceCode = got.rec.DeviceCode])
    /\ UNCHANGED <<now, validFor, deviceRequests, deviceTokens, trace, attached,
                   limiterVars>>

\* GetDeviceToken and its expiry check
D4GetToken(p, K) ==
    /\ frame[p].pc = "d4_gettoken"
    /\ \E fault \in Faults(K) :
        LET old == GetDeviceToken(frame[p].deviceCode, fault)
            f == [frame[p] EXCEPT !.err = old.err, !.deviceToken = old.rec]
        IN  Goto(p,
              IF old.err # Nil \/ After(now, old.rec.Expiry)
              THEN Done(f, "GetDeviceToken", <<renderError(500)>>)
              ELSE [f EXCEPT !.pc = "d4_update"])
    /\ UNCHANGED <<now, validFor, deviceRequests, deviceTokens, trace, attached,
                   limiterVars>>

\* UpdateDeviceToken with the updater, and the page
D4Update(p, K) ==
    /\ frame[p].pc = "d4_update"
    /\ \E fault \in Faults(K) :
        LET resp == TokenOf(frame[p].code)
            d == frame[p].deviceCode
            upd == [old \in {deviceTokens[d]} |-> D4Updater(old, resp)]
            r == UpdateDeviceToken(d, upd, fault)
            f == [frame[p] EXCEPT !.err = r.err]
        IN  /\ deviceTokens' = r.tokens
            /\ attached' = IF r.err = Nil
                           THEN [attached EXCEPT ![d] = Attach(attached[d], resp)]
                           ELSE attached
            /\ Goto(p, IF r.err # Nil
                       THEN Done(f, "UpdateDeviceToken", <<renderError(500)>>)
                       ELSE Done(f, "deviceSuccess",
                                 <<Write("deviceSuccess", 200, "")>>))
    /\ UNCHANGED <<now, validFor, deviceRequests, trace, limiterVars>>

-----------------------------------------------------------------------------
(* D5  POST /device/token *)

\* a rate limiting check that also refuses the poll made exactly at the interval
TooFastInclusive(deviceToken, t) ==
    ~After(t, deviceToken.LastRequestTime + Seconds(deviceToken.PollIntervalSeconds))

\* the rate limiting check: the poll comes before LastRequestTime + PollIntervalSeconds
TooFast(deviceToken, t) ==
    Before(t, deviceToken.LastRequestTime + Seconds(deviceToken.PollIntervalSeconds))

\* an interval that starts again from nothing
NextPollIntervalZero(deviceToken, t) ==
    IF TooFast(deviceToken, t)
    THEN deviceToken.PollIntervalSeconds + PollIncrement
    ELSE 0

\* an interval that does not grow
NextPollIntervalReset(deviceToken, t) == PollReset

\* the interval the handler goes on with
NextPollInterval(deviceToken, t) ==
    IF TooFast(deviceToken, t)
    THEN deviceToken.PollIntervalSeconds + PollIncrement
    ELSE PollReset

\* what the handler has written when it reaches the switch on the status
RateCheckWrites(deviceToken, t) ==
    IF TooFast(deviceToken, t)
    THEN <<tokenErrHelper(deviceTokenSlowDown, 400)>>
    ELSE <<>>

\* a poll updater that leaves the time of the last request alone
D5UpdaterKeepsTime(old, pollInterval, t) ==
    [rec |-> [old EXCEPT !.PollIntervalSeconds = pollInterval], err |-> Nil]

\* a poll updater that writes the status of the branch it runs in
D5UpdaterReset(old, pollInterval, t) ==
    [rec |-> [old EXCEPT !.PollIntervalSeconds = pollInterval,
                         !.LastRequestTime = t,
                         !.Status = deviceTokenPending],
     err |-> Nil]

\* the updater of handleDeviceToken: the interval and the time of this poll
D5Updater(old, pollInterval, t) ==
    [rec |-> [old EXCEPT !.PollIntervalSeconds = pollInterval,
                         !.LastRequestTime = t],
     err |-> Nil]

\* the requests: a body that does not parse, no device code, another grant type,
\* or a device code (known or not) with the store answering or failing
TokenInputs(K) ==
    IF K.plain
    THEN [parseOk : {TRUE}, deviceCode : K.dc, grantOk : {TRUE}, fault : {FALSE}]
    ELSE
    {[parseOk |-> FALSE, deviceCode |-> "", grantOk |-> TRUE, fault |-> FALSE],
     [parseOk |-> TRUE, deviceCode |-> "", grantOk |-> TRUE, fault |-> FALSE],
     [parseOk |-> TRUE, deviceCode |-> "D1", grantOk |-> FALSE, fault |-> FALSE]}
    \cup [parseOk : {TRUE}, deviceCode : K.dc \cup {"ZZ"}, grantOk : {TRUE},
          fault : {FALSE}]
    \cup {[parseOk |-> TRUE, deviceCode |-> "D1", grantOk |-> TRUE, fault |-> TRUE]}

\* the form, GetDeviceToken, the rate limiting check and the complete branch
D5Begin(p, K) ==
    /\ Free(p)
    /\ Room(K)
    /\ \E in \in TokenInputs(K) :
        LET got == GetDeviceToken(in.deviceCode, in.fault)
            deviceToken == got.rec
            f == [IdleFrame EXCEPT !.handler = "D5", !.deviceCode = in.deviceCode]
            g == [f EXCEPT !.now = now, !.err = got.err, !.deviceToken = deviceToken]
            h == [g EXCEPT !.pollInterval = NextPollInterval(deviceToken, now)]
            w == RateCheckWrites(deviceToken, now)
            next ==
                IF ~in.parseOk
                THEN Done([f EXCEPT !.deviceCode = ""], "ParseForm",
                          <<tokenErrHelper(errInvalidRequest, 400)>>)
                ELSE IF in.deviceCode = ""
                THEN Done(f, "device_code", <<tokenErrHelper(errInvalidRequest, 400)>>)
                ELSE IF ~in.grantOk
                THEN Done(f, "grant_type", <<tokenErrHelper(errInvalidGrant, 400)>>)
                ELSE IF got.err # Nil \/ After(now, deviceToken.Expiry)
                THEN IF got.err # ErrNotFound
                     THEN Done(g, "GetDeviceToken",
                               <<tokenErrHelper(errServerError, 500)>>)
                     ELSE Done(g, "GetDeviceToken",
                               <<tokenErrHelper(deviceTokenExpired, 400)>>)
                ELSE IF deviceToken.Status = deviceTokenPending
                THEN [h EXCEPT !.pc = "d5_update", !.w = w]
                ELSE IF deviceToken.Status = deviceTokenComplete
                THEN Done(h, "Write", w \o <<Write("token", 200, deviceToken.Token)>>)
                ELSE Done(h, "switch", w)
        IN  /\ deviceToken.PollIntervalSeconds + PollIncrement <= K.maxPoll
            /\ Goto(p, next)
            /\ trace' = IF next.pc = "done" /\ next.step = "Write"
                        THEN Record(K, next)
                        ELSE trace
    /\ UNCHANGED <<now, validFor, deviceRequests, deviceTokens, attached, limiterVars>>

\* the pending branch: UpdateDeviceToken with the updater, and the response
D5Update(p, K) ==
    /\ frame[p].pc = "d5_update"
    /\ \E fault \in Faults(K) :
        LET d == frame[p].deviceCode
            upd == [old \in {deviceTokens[d]} |->
                       D5Updater(old, frame[p].pollInterval, frame[p].now)]
            r == UpdateDeviceToken(d, upd, fault)
            f == [frame[p] EXCEPT !.err = r.err]
            next == IF r.err # Nil
                    THEN Done(f, "UpdateDeviceToken", f.w \o <<renderError(500)>>)
                    ELSE Done(f, "pending",
                              f.w \o <<tokenErrHelper(deviceTokenPending, 401)>>)
        IN  /\ deviceTokens' = r.tokens
            /\ Goto(p, next)
            /\ trace' = Record(K, next)
    /\ UNCHANGED <<now, validFor, deviceRequests, attached, limiterVars>>

-----------------------------------------------------------------------------
(* The store's garbage collection and the clock *)

\* an expired record may be reaped at any time
ReapDeviceRequest(K) ==
    /\ \E u \in K.uc :
        /\ deviceRequests[u].UserCode # ""
        /\ After(now, deviceRequests[u].Expiry)
        /\ deviceRequests' = [deviceRequests EXCEPT ![u] = ZeroDeviceRequest]
    /\ delivered' = IdleFrame
    /\ UNCHANGED <<now, validFor, deviceTokens, frame, trace, attached, limiterVars>>

ReapDeviceToken(K) ==
    /\ \E d \in K.dc :
        /\ deviceTokens[d].DeviceCode # ""
        /\ After(now, deviceTokens[d].Expiry)
        /\ deviceTokens' = [deviceTokens EXCEPT ![d] = ZeroDeviceToken]
        /\ attached' = [attached EXCEPT ![d] = NoneAttached]
    /\ delivered' = IdleFrame
    /\ UNCHANGED <<now, validFor, deviceRequests, frame, trace, limiterVars>>

\* s.now(): a second passes
Tick(K) ==
    /\ now + Seconds(1) <= Seconds(K.maxTime)
    /\ now' = now + Seconds(1)
    /\ delivered' = IdleFrame
    /\ UNCHANGED <<validFor, deviceRequests, deviceTokens, frame, trace, attached,
                   limiterVars>>

-----------------------------------------------------------------------------
(* The request limiter (RequestLimiter) *)

Keys == {"POST-10.0.0.1-/device/token"}

ZeroRequestLimit ==
    [Key |-> "", Interval |-> 0, LastSeen |-> ZeroTime, Expiry |-> ZeroTime]

\* int(d.Seconds()): the whole seconds of a duration
IntSeconds(d) == d \div TicksPerSecond

\* a limit test that also holds at the very end of the interval
IsLimitedInclusive(r, t) == ~After(t, r.LastSeen + Seconds(r.Interval))

\* the current time is before LastSeen plus Interval seconds
IsLimited(r, t) == Before(t, r.LastSeen + Seconds(r.Interval))

\* the updater of UpdateRequest
RequestUpdater(limit, t) ==
    [limit EXCEPT
        !.Interval = IF IsLimited(limit, t) /\ limiter.backoff
                     THEN limit.Interval + IntSeconds(limiter.baseRequestInterval)
                     ELSE IntSeconds(limiter.baseRequestInterval),
        !.LastSeen = t,
        !.Expiry = t + limiter.defaultExpireTime]

GetRequestLimit(key, fault) ==
    IF fault THEN [rec |-> ZeroRequestLimit, err |-> ErrOther]
    ELSE IF requestLimits[key].Key = ""
    THEN [rec |-> ZeroRequestLimit, err |-> ErrNotFound]
    ELSE [rec |-> requestLimits[key], err |-> Nil]

\* Create fails on a key that is already stored
CreateRequestLimitErr(r, fault) ==
    IF fault THEN ErrOther
    ELSE IF requestLimits[r.Key].Key # "" THEN ErrAlreadyExists
    ELSE Nil

\* GetLastRequest: the record it creates in place of one that is not found
FreshRequestLimit(key, t) ==
    [Key |-> key, Interval |-> 0, LastSeen |-> t,
     Expiry |-> t + limiter.defaultExpireTime]

\* the limiter's mutex: l.Lock() goes through when nobody holds it
Unlocked == ""

\* a Lock that does not wait
TryLockAlways(p) == TRUE

TryLock(p) == limiter.mu = Unlocked

\* what is known of the UpdateRequest calls on a stored record: how many there
\* were (2 for two or more), of the latest the time and the record it found, and
\* how many calls in a row, up to the latest, found the record limited
NoUpdate == [n |-> 0, before |-> ZeroRequestLimit, at |-> ZeroTime, limited |-> 0]

Updated(u, old, t) ==
    [n |-> IF u.n = 0 THEN 1 ELSE 2, before |-> old, at |-> t,
     limited |-> IF ~IsLimited(old, t) THEN 0
                 ELSE IF u.limited < MaxInterval THEN u.limited + 1
                 ELSE u.limited]

IdleMiddle == [pc |-> "idle", req |-> ZeroRequestLimit]

\* what RequestLimitHandler did with the request it has just finished: the status
\* it rendered, how often it called ExecOnLimitReached, how often that called the
\* hook and with what delay, how often it served the wrapped handler, the record
\* GetLastRequest gave it, and the err that ended it
NothingServed ==
    [status |-> 0, exec |-> 0, hook |-> 0, delay |-> 0, next |-> 0,
     req |-> ZeroRequestLimit, err |-> Nil]

\* s.renderError(r, w, http.StatusInternalServerError, "") and return
ServedError(req, err) == [NothingServed EXCEPT !.status = 500, !.req = req, !.err = err]

\* ExecOnLimitReached: the hook, when one is set
ExecOnLimitReached(s, delaySeconds) ==
    IF limiter.onLimitReached
    THEN [s EXCEPT !.exec = @ + 1, !.hook = @ + 1, !.delay = delaySeconds]
    ELSE [s EXCEPT !.exec = @ + 1]

\* next.ServeHTTP(w, r)
ServeNext(s) == [s EXCEPT !.next = @ + 1]

\* a limit decision that falls through to the wrapped handler
DecideNoReturn(req, t) ==
    LET s == [NothingServed EXCEPT !.req = req]
    IN  IF IsLimited(req, t)
        THEN ServeNext(ExecOnLimitReached(s, req.Interval))
        ELSE ServeNext(s)

\* the limit decision of RequestLimitHandler, on the record GetLastRequest gave
Decide(req, t) ==
    LET s == [NothingServed EXCEPT !.req = req]
    IN  IF IsLimited(req, t)
        THEN ExecOnLimitReached(s, req.Interval)
        ELSE ServeNext(s)

\* SetOnLimitReached, under the limiter's lock
SetOnLimitReached ==
    /\ limiter.mu = Unlocked
    /\ ~limiter.onLimitReached
    /\ limiter' = [limiter EXCEPT !.onLimitReached = TRUE]
    /\ served' = NothingServed
    /\ UNCHANGED <<now, deviceVars, requestLimits, mw, lastUpdate>>

\* LimitByRequest: GetLastRequest takes the limiter's lock and reads the record;
\* it keeps the lock when it has a record to create
MiddleGet(p) ==
    /\ mw[p].pc = "idle"
    /\ TryLock(p)
    /\ \E key \in Keys, fault \in BOOLEAN :
        LET got == GetRequestLimit(key, fault)
        IN  /\ requestLimits[key].Interval + IntSeconds(limiter.baseRequestInterval)
                  <= MaxInterval
            /\ IF got.err = Nil
               THEN /\ mw' = [mw EXCEPT ![p] = [pc |-> "update", req |-> got.rec]]
                    /\ served' = NothingServed
                    /\ UNCHANGED limiter
               ELSE IF got.err # ErrNotFound
               THEN /\ served' = ServedError(got.rec, got.err)
                    /\ UNCHANGED <<mw, limiter>>
               ELSE /\ mw' = [mw EXCEPT ![p] = [pc |-> "create",
                                                req |-> FreshRequestLimit(key, now)]]
                    /\ limiter' = [limiter EXCEPT !.mu = p]
                    /\ served' = NothingServed
    /\ UNCHANGED <<now, deviceVars, requestLimits, lastUpdate>>

\* GetLastRequest: CreateRequestLimit of the fresh record, and the lock is released
MiddleCreate(p) ==
    /\ mw[p].pc = "create"
    /\ \E fault \in BOOLEAN :
        LET req == mw[p].req
            err == CreateRequestLimitErr(req, fault)
        IN  IF err # Nil
            THEN /\ served' = ServedError(req, err)
                 /\ mw' = [mw EXCEPT ![p] = IdleMiddle]
                 /\ UNCHANGED <<requestLimits, lastUpdate>>
            ELSE /\ requestLimits' = [requestLimits EXCEPT ![req.Key] = req]
                 /\ lastUpdate' = [lastUpdate EXCEPT ![req.Key] = NoUpdate]
                 /\ mw' = [mw EXCEPT ![p].pc = "update"]
                 /\ served' = NothingServed
    /\ limiter' = [limiter EXCEPT !.mu = IF @ = p THEN Unlocked ELSE @]
    /\ UNCHANGED <<now, deviceVars>>

\* UpdateRequest: the store's update of the record under the request's key
MiddleUpdate(p) ==
    /\ mw[p].pc = "update"
    /\ \E fault \in BOOLEAN :
        LET key == mw[p].req.Key
            cur == GetRequestLimit(key, fault)
        IN  IF cur.err # Nil
            THEN /\ served' = ServedError(mw[p].req, cur.err)
                 /\ mw' = [mw EXCEPT ![p] = IdleMiddle]
                 /\ UNCHANGED <<requestLimits, lastUpdate>>
            ELSE /\ requestLimits' =
                        [requestLimits EXCEPT ![key] = RequestUpdater(cur.rec, now)]
                 /\ lastUpdate' =
                        [lastUpdate EXCEPT ![key] = Updated(lastUpdate[key], cur.rec, now)]
                 /\ mw' = [mw EXCEPT ![p].pc = "decide"]
                 /\ served' = NothingServed
    /\ UNCHANGED <<now, deviceVars, limiter>>

\* IsLimited on the record GetLastRequest returned: the hook, or the next handler.
\* The read lock ExecOnLimitReached takes delays the hook and changes nothing.
MiddleDecide(p) ==
    /\ mw[p].pc = "decide"
    /\ served' = Decide(mw[p].req, now)
    /\ mw' = [mw EXCEPT ![p] = IdleMiddle]
    /\ UNCHANGED <<now, deviceVars, limiter, requestLimits, lastUpdate>>

ReapRequestLimit ==
    /\ \E k \in Keys :
        /\ requestLimits[k].Key # ""
        /\ After(now, requestLimits[k].Expiry)
        /\ requestLimits' = [requestLimits EXCEPT ![k] = ZeroRequestLimit]
        /\ lastUpdate' = [lastUpdate EXCEPT ![k] = NoUpdate]
    /\ served' = NothingServed
    /\ UNCHANGED <<now, deviceVars, limiter, mw>>

\* l.now(): a tick passes
TickLimiter ==
    /\ now < MaxTimeLimiter
    /\ now' = now + 1
    /\ served' = NothingServed
    /\ UNCHANGED <<deviceVars, limiter, requestLimits, mw, lastUpdate>>

-----------------------------------------------------------------------------
(* The specifications *)

InitLimiter ==
    /\ limiter = [baseRequestInterval |-> 0, defaultExpireTime |-> 0,
                  backoff |-> FALSE, onLimitReached |-> FALSE, mu |-> Unlocked]
    /\ requestLimits = [k \in Keys |-> ZeroRequestLimit]
    /\ mw = [p \in Procs |-> IdleMiddle]
    /\ served = NothingServed
    /\ lastUpdate = [k \in Keys |-> NoUpdate]

InitDevice(v) ==
    /\ now = 0
    /\ validFor = v
    /\ deviceRequests = [u \in UserCodes |-> ZeroDeviceRequest]
    /\ deviceTokens = [d \in DeviceCodes |-> ZeroDeviceToken]
    /\ frame = [p \in Procs |-> IdleFrame]
    /\ delivered = IdleFrame
    /\ trace = <<>>
    /\ attached = [d \in DeviceCodes |-> NoneAttached]

Init == InitDevice(ValidFor) /\ InitLimiter

InitSeq == InitDevice(ValidForSeq) /\ InitLimiter

Handlers(p, K) ==
    \/ D1ParseError(p, K)
    \/ D1CreateRequest(p, K)
    \/ D1CreateToken(p, K)
    \/ verifyUserCode(p, K)
    \/ D4Begin(p, K)
    \/ D4GetToken(p, K)
    \/ D4Update(p, K)
    \/ D5Begin(p, K)
    \/ D5Update(p, K)

\* two workers serve requests concurrently
Next ==
    \/ \E p \in Cfg.procs : Handlers(p, Cfg)
    \/ ReapDeviceRequest(Cfg)
    \/ ReapDeviceToken(Cfg)
    \/ Tick(Cfg)

Spec == Init /\ [][Next]_vars

\* one worker serves the requests for one device, one after the other
NextSeq ==
    \/ \E p \in CfgSeq.procs :
          \/ D1CreateRequest(p, CfgSeq)
          \/ D1CreateToken(p, CfgSeq)
          \/ verifyUserCode(p, CfgSeq)
          \/ D4Begin(p, CfgSeq)
          \/ D4GetToken(p, CfgSeq)
          \/ D4Update(p, CfgSeq)
          \/ D5Begin(p, CfgSeq)
          \/ D5Update(p, CfgSeq)
    \/ ReapDeviceRequest(CfgSeq)
    \/ ReapDeviceToken(CfgSeq)
    \/ Tick(CfgSeq)

SpecSeq == InitSeq /\ [][NextSeq]_vars

\* one worker issues a device code and serves the polls, and the run records them
NextPoll ==
    \/ \E p \in CfgPoll.procs :
          \/ D1CreateRequest(p, CfgPoll)
          \/ D1CreateToken(p, CfgPoll)
          \/ D5Begin(p, CfgPoll)
          \/ D5Update(p, CfgPoll)
    \/ Tick(CfgPoll)

SpecPoll == InitSeq /\ [][NextPoll]_vars

\* the limiter, as NewRequestLimiter makes it: any base interval, with or without
\* backoff, no hook, the lock free
InitConfigured ==
    /\ InitDevice(ValidFor)
    /\ limiter \in [baseRequestInterval : 0..MaxBaseInterval,
                    defaultExpireTime : {ExpireTicks},
                    backoff : BOOLEAN,
                    onLimitReached : {FALSE},
                    mu : {Unlocked}]
    /\ requestLimits = [k \in Keys |-> ZeroRequestLimit]
    /\ mw = [p \in Procs |-> IdleMiddle]
    /\ served = NothingServed
    /\ lastUpdate = [k \in Keys |-> NoUpdate]

\* two workers pass requests through RequestLimitHandler
NextLimiter ==
    \/ \E p \in Procs :
          \/ MiddleGet(p)
          \/ MiddleCreate(p)
          \/ MiddleUpdate(p)
          \/ MiddleDecide(p)
    \/ SetOnLimitReached
    \/ ReapRequestLimit
    \/ TickLimiter

SpecLimiter == InitConfigured /\ [][NextLimiter]_vars

-----------------------------------------------------------------------------
(* Properties of the device flow under concurrent requests (Spec) *)

\* the step of worker p that runs the callback's UpdateDeviceToken
CallbackUpdates(p) == frame[p].pc = "d4_update" /\ frame'[p] # frame[p]

\* C1: of the callbacks for one device code, concurrent or repeated, whatever
\* their auth codes, at most one attaches a token: a callback's update either
\* finds the record pending with nothing attached yet, stores its own token with
\* status complete and renders the success page, or answers HTTP 500 and leaves
\* the record as it was.  The store applies the updater to the record as stored,
\* in one step.
AtMostOnce ==
    [][\A p \in Procs :
          CallbackUpdates(p) =>
              LET d == frame[p].deviceCode
                  old == deviceTokens[d]
                  resp == TokenOf(frame[p].code)
              IN  \/ /\ delivered'.w = <<Write("deviceSuccess", 200, "")>>
                     /\ old.Status = deviceTokenPending
                     /\ attached[d].n = 0
                     /\ attached'[d] = [n |-> 1, token |-> resp]
                     /\ deviceTokens' =
                            [deviceTokens EXCEPT
                                ![d] = [old EXCEPT !.Token = resp,
                                                   !.Status = deviceTokenComplete]]
                  \/ /\ HttpStatus(delivered'.w) = 500
                     /\ deviceTokens' = deviceTokens
                     /\ attached' = attached]_vars

\* a callback that read the record pending, lost to a concurrent callback with
\* another auth code, and was refused by the updater: the token stored is the
\* winner's
AtMostOnceWitness ==
    /\ delivered.handler = "D4"
    /\ delivered.step = "UpdateDeviceToken"
    /\ delivered.err = "device token already complete"
    /\ delivered.deviceToken.Status = deviceTokenPending
    /\ HttpStatus(delivered.w) = 500
    /\ attached[delivered.deviceCode].n = 1
    /\ deviceTokens[delivered.deviceCode].Status = deviceTokenComplete
    /\ deviceTokens[delivered.deviceCode].Token # TokenOf(delivered.code)
    /\ deviceTokens[delivered.deviceCode].Token = attached[delivered.deviceCode].token

\* a stored DeviceToken has a token exactly when its status is complete
TokenIffComplete ==
    \A d \in DeviceCodes :
        deviceTokens[d].DeviceCode # "" =>
            (deviceTokens[d].Token # "" <=> deviceTokens[d].Status = deviceTokenComplete)

\* C2: under any interleaving of D1, D4 and D5 a DeviceToken that is complete
\* does not become pending, and a stored DeviceToken has a non-empty token if
\* and only if its status is complete.
StatusMonotone ==
    /\ []TokenIffComplete
    /\ [][\A d \in DeviceCodes :
            deviceTokens[d].Status = deviceTokenComplete =>
                deviceTokens'[d].Status # deviceTokenPending]_vars

\* a poll that read the record pending ran its update after a callback had
\* completed the record, and the record is still complete
StatusMonotoneWitness ==
    /\ delivered.handler = "D5"
    /\ delivered.step = "pending"
    /\ delivered.deviceToken.Status = deviceTokenPending
    /\ deviceTokens[delivered.deviceCode].Status = deviceTokenComplete
    /\ deviceTokens[delivered.deviceCode].Token # ""
    /\ deviceTokens[delivered.deviceCode].LastRequestTime = delivered.now
    /\ deviceTokens[delivered.deviceCode].PollIntervalSeconds = delivered.pollInterval

\* C3: every poll that finds the DeviceToken complete writes the same token
\* bytes, those the first successful callback stored, whatever callbacks and
\* polls ran since.  (What a poll that comes too fast writes before the token
\* is the matter of C5.)
TokenStable ==
    delivered.handler = "D5" /\ delivered.step = "Write" =>
        LET d == delivered.deviceCode
            w == delivered.w
        IN  /\ attached[d].n >= 1
            /\ w[Len(w)] = Write("token", 200, attached[d].token)
            /\ \A i \in 1..Len(w) : w[i].kind = "token" => i = Len(w)

\* a poll returns the token after a second callback, with another auth code, has
\* been refused
TokenStableWitness ==
    /\ delivered.handler = "D5"
    /\ delivered.step = "Write"
    /\ delivered.w[Len(delivered.w)].body = attached[delivered.deviceCode].token
    /\ \E p \in Procs :
        /\ frame[p].pc = "d4_update"
        /\ frame[p].deviceCode = delivered.deviceCode
        /\ TokenOf(frame[p].code) # attached[delivered.deviceCode].token

\* C4: a poll whose DeviceToken is absent from the store, or stored and past its
\* expiry, is answered expired_token with HTTP 400; server_error with HTTP 500 is
\* answered only when the lookup fails with an error other than NotFound.
ExpiredIsExpiredToken ==
    delivered.handler = "D5" /\ delivered.step = "GetDeviceToken" =>
        IF delivered.err = ErrOther
        THEN delivered.w = <<tokenErrHelper(errServerError, 500)>>
        ELSE delivered.w = <<tokenErrHelper(deviceTokenExpired, 400)>>

\* the poll reached the rate limiting check of a stored, unexpired DeviceToken
ReachedRateCheck(f) ==
    /\ f.handler = "D5"
    /\ f.step \in {"Write", "switch", "pending", "UpdateDeviceToken"}

\* C5: a poll of an unexpired device code that comes before last_request_time +
\* poll_interval_seconds gets slow_down with HTTP 400 and nothing else, whether
\* the DeviceToken is pending or complete.
SlowDownAlone ==
    /\ ReachedRateCheck(delivered)
    /\ delivered.now < delivered.deviceToken.LastRequestTime
                          + Seconds(delivered.deviceToken.PollIntervalSeconds)
    => delivered.w = <<tokenErrHelper(deviceTokenSlowDown, 400)>>

-----------------------------------------------------------------------------
(* The polling scenario (SpecPoll) *)

\* D1 at T0, then polls at T0+1s, T0+7s and T0+12s, each finding the record pending
PollsAt1And7And12 ==
    /\ Len(trace) >= 4
    /\ trace[1].handler = "D1"
    /\ \A i \in 2..4 : trace[i].handler = "D5" /\ trace[i].status = deviceTokenPending
    /\ trace[2].now = trace[1].now + Seconds(1)
    /\ trace[3].now = trace[1].now + Seconds(7)
    /\ trace[4].now = trace[1].now + Seconds(12)

\* the errors a response carries, in the order written
Errors(w) == [i \in 1..Len(w) |-> w[i].body]

-----------------------------------------------------------------------------
(* Polls of one device, one request at a time (SpecSeq) *)

\* C7: a poll of a device code that comes no sooner than the stored interval
\* after last_request_time, and is served before the expiry, is answered
\* authorization_pending with HTTP 401 as long as no callback has completed the
\* DeviceToken, and the stored token body with HTTP 200 once one has.
PendingThenToken ==
    /\ ReachedRateCheck(delivered)
    /\ ~After(now, delivered.deviceToken.Expiry)
    /\ delivered.now >= delivered.deviceToken.LastRequestTime
                           + Seconds(delivered.deviceToken.PollIntervalSeconds)
    => LET d == delivered.deviceCode
       IN  IF attached[d].n = 0
           THEN delivered.w = <<tokenErrHelper(deviceTokenPending, 401)>>
           ELSE delivered.w = <<Write("token", 200, attached[d].token)>>

\* D1 at T0, a callback that succeeded, and the poll at T0+6s returns the token
PendingThenTokenWitness ==
    /\ ReachedRateCheck(delivered)
    /\ delivered.deviceToken.Expiry = delivered.deviceToken.LastRequestTime
                                         + Seconds(validFor)
    /\ delivered.deviceToken.PollIntervalSeconds = InitialPollInterval
    /\ delivered.now = delivered.deviceToken.LastRequestTime + Seconds(6)
    /\ attached[delivered.deviceCode].n = 1
    /\ delivered.w = <<Write("token", 200, attached[delivered.deviceCode].token)>>

-----------------------------------------------------------------------------
(* The records D1 stores (Spec) *)

\* C8: in every state, those between the two writes of D1 and those after a D1
\* whose CreateDeviceToken failed included, a stored unexpired DeviceRequest has
\* a DeviceToken with its device code, and that DeviceToken has its expiry.
RequestHasToken ==
    \A u \in UserCodes :
        LET r == deviceRequests[u]
        IN  r.UserCode # "" /\ ~After(now, r.Expiry) =>
                /\ deviceTokens[r.DeviceCode].DeviceCode = r.DeviceCode
                /\ deviceTokens[r.DeviceCode].Expiry = r.Expiry

\* C9: a D1 whose user code is that of a stored DeviceRequest, so that the store's
\* create reports the conflict, goes on to another user code and succeeds.
ConflictIsRetried ==
    /\ delivered.handler = "D1"
    /\ delivered.step = "CreateDeviceRequest"
    /\ delivered.err = ErrAlreadyExists
    => HttpStatus(delivered.w) = 200

-----------------------------------------------------------------------------
(* The request limiter (SpecLimiter) *)

\* C10: of two UpdateRequest calls on a key, the second finds the stored record
\* limited when the clock advanced by less than the base interval since the
\* first, and not limited when it advanced by the base interval or more and
\* backoff is off.
SecondIsLimited ==
    \A k \in Keys :
        lastUpdate[k].n = 2 =>
            LET stored == lastUpdate[k].before
                at == lastUpdate[k].at
                advance == at - stored.LastSeen
            IN  /\ advance < limiter.baseRequestInterval => IsLimited(stored, at)
                /\ advance >= limiter.baseRequestInterval /\ ~limiter.backoff
                       => ~IsLimited(stored, at)

\* C11: with backoff, the stored interval is one base interval after an
\* UpdateRequest that found the record not limited (the first one on a fresh
\* record is such), and one base interval more for every UpdateRequest in a row
\* since then that found it limited; and every UpdateRequest leaves last_seen at
\* its time and expiry at its time plus the default expiry.
IntervalGrowsLinearly ==
    \A k \in Keys :
        requestLimits[k].Key # "" /\ lastUpdate[k].n >= 1 /\ limiter.backoff =>
            /\ Seconds(requestLimits[k].Interval)
                   = (lastUpdate[k].limited + 1) * limiter.baseRequestInterval
            /\ requestLimits[k].LastSeen = lastUpdate[k].at
            /\ requestLimits[k].Expiry = lastUpdate[k].at + limiter.defaultExpireTime

\* the request just finished came to the limit decision
Decided(s) == s.exec + s.next >= 1

\* the record GetLastRequest gave is limited at the time of the decision
SnapshotLimited(s) == now < s.req.LastSeen + Seconds(s.req.Interval)

\* the decision is that of the record as read: the hook path when it is limited,
\* the wrapped handler when it is not, and never the hook path for a record read
\* with interval 0; the hook is given the interval of the record as read
DecisionOnSnapshot ==
    Decided(served) =>
        /\ served.exec = (IF SnapshotLimited(served) THEN 1 ELSE 0)
        /\ served.next = (IF SnapshotLimited(served) THEN 0 ELSE 1)
        /\ served.req.Interval = 0 => served.next = 1 /\ served.exec = 0
        /\ served.hook = 1 => served.delay = served.req.Interval

\* C12: the middleware's UpdateRequest advances the stored record before the
\* limit decision is taken, and the decision is made on the record as
\* GetLastRequest returned it: a first request for a key, read with interval 0,
\* goes to the wrapped handler, and the hook of a rejected request receives the
\* interval of the record as read.
UpdateThenDecide ==
    /\ []DecisionOnSnapshot
    /\ [][\A p \in Procs :
            /\ mw'[p].pc = "decide" /\ mw[p].pc # "decide" =>
                  /\ mw[p].pc = "update"
                  /\ mw'[p].req = mw[p].req
                  /\ requestLimits'[mw[p].req.Key]
                         = RequestUpdater(requestLimits[mw[p].req.Key], now)
            /\ mw[p].pc = "decide" /\ mw'[p].pc # "decide" =>
                  /\ Decided(served')
                  /\ served'.req = mw[p].req
                  /\ requestLimits' = requestLimits]_vars

\* a request is rejected and its hook gets the interval read, when the update
\* has already stored a longer one
UpdateThenDecideWitness ==
    /\ served.hook = 1
    /\ served.next = 0
    /\ served.delay = served.req.Interval
    /\ requestLimits[served.req.Key].Interval > served.req.Interval
    /\ requestLimits[served.req.Key].LastSeen > served.req.LastSeen

-----------------------------------------------------------------------------
(* The verification of the user code (Spec) *)

\* C13: a D3 whose upper-cased user code has no DeviceRequest, or one that is
\* stored and expired, is answered by the user-code page with invalid=true and by
\* nothing else; a D3 whose DeviceRequest is stored and unexpired is answered by
\* a 302 whose state is the stored user code.
InvalidPageAlone ==
    /\ delivered.handler = "D3" /\ delivered.step = "GetDeviceRequest"
       /\ delivered.err # ErrOther
       => delivered.w = <<Write("device", 200, "invalid")>>
    /\ delivered.handler = "D3" /\ delivered.step = "Redirect"
       => /\ delivered.w = <<Write("redirect", 302, delivered.userCode)>>
          /\ deviceRequests[delivered.userCode].UserCode = delivered.userCode
          /\ ~After(now, deviceRequests[delivered.userCode].Expiry)

-----------------------------------------------------------------------------
(* What a poll stores (SpecSeq) *)

\* C14, as stated: every poll of a stored, unexpired DeviceToken leaves the
\* stored last_request_time at the time of the poll, the polls answered slow_down
\* and the polls of a complete DeviceToken included.
EveryPollAdvances ==
    /\ ReachedRateCheck(delivered)
    /\ delivered.err = Nil
    /\ ~After(now, delivered.deviceToken.Expiry)
    => deviceTokens[delivered.deviceCode].LastRequestTime = delivered.now

\* C14, as the handler has it: a poll that finds the DeviceToken pending and
\* whose update succeeds leaves the stored last_request_time at the time of the
\* poll, and the interval it computed, whether or not it was answered slow_down;
\* a poll that finds the DeviceToken complete stores nothing.
PendingPollAdvances ==
    /\ delivered.handler = "D5" /\ delivered.step = "pending" =>
          /\ deviceTokens[delivered.deviceCode].LastRequestTime = delivered.now
          /\ deviceTokens[delivered.deviceCode].PollIntervalSeconds
                 = delivered.pollInterval
    /\ delivered.handler = "D5" /\ delivered.step = "Write" =>
          deviceTokens[delivered.deviceCode] = delivered.deviceToken

\* a poll of a complete DeviceToken, later than the last request time stored, has
\* returned the token and the stored time is what it was
PendingPollAdvancesWitness ==
    /\ delivered.handler = "D5"
    /\ delivered.step = "Write"
    /\ delivered.deviceToken.Status = deviceTokenComplete
    /\ ~After(now, delivered.deviceToken.Expiry)
    /\ delivered.now > deviceTokens[delivered.deviceCode].LastRequestTime
    /\ deviceTokens[delivered.deviceCode].LastRequestTime
           = delivered.deviceToken.LastRequestTime

\* C15: a poll answered slow_down does not store the longer interval: the stored
\* poll_interval_seconds is what it was before a poll that came too fast, and
\* only a poll of a pending DeviceToken that passed the rate check writes it.
SlowDownStoresNothing ==
    /\ ReachedRateCheck(delivered)
    /\ delivered.now < delivered.deviceToken.LastRequestTime
                          + Seconds(delivered.deviceToken.PollIntervalSeconds)
    => deviceTokens[delivered.deviceCode].PollIntervalSeconds
           = delivered.deviceToken.PollIntervalSeconds

-----------------------------------------------------------------------------
(* Concurrent polls (Spec) *)

\* the step of worker p in which the update of its poll is stored
PollStores(p) ==
    /\ frame[p].pc = "d5_update"
    /\ frame'[p] # frame[p]
    /\ delivered'.step = "pending"

\* C16: the read-modify-write of a poll is atomic per key: the update of a poll
\* is stored on the record the poll read, which no other poll has updated since
\* (so that interleaved polls store and answer what they would one after the
\* other), and the stored last_request_time never moves backwards.
PollsSerialize ==
    [][\A p \in Procs :
          PollStores(p) =>
              LET d == frame[p].deviceCode
              IN  /\ deviceTokens[d].PollIntervalSeconds
                         = frame[p].deviceToken.PollIntervalSeconds
                  /\ deviceTokens[d].LastRequestTime
                         = frame[p].deviceToken.LastRequestTime
                  /\ deviceTokens'[d].LastRequestTime
                         >= deviceTokens[d].LastRequestTime]_vars

-----------------------------------------------------------------------------
(* The outcomes of the middleware (SpecLimiter) *)

\* the three outcomes of a request
EndsInError(s) ==
    s.err # Nil /\ s.status = 500 /\ s.exec = 0 /\ s.hook = 0 /\ s.next = 0

EndsLimited(s) ==
    /\ s.err = Nil /\ s.status = 0
    /\ SnapshotLimited(s)
    /\ s.exec = 1
    /\ s.hook = (IF limiter.onLimitReached THEN 1 ELSE 0)
    /\ s.next = 0

EndsServed(s) ==
    /\ s.err = Nil /\ s.status = 0
    /\ ~SnapshotLimited(s)
    /\ s.exec = 0 /\ s.hook = 0
    /\ s.next = 1

\* C17: a request through the middleware ends in exactly one of three ways: an
\* error of the store in GetLastRequest or UpdateRequest gives HTTP 500, with
\* neither the hook nor the wrapped handler; or the record as read is limited and
\* the hook path is taken, without the wrapped handler; or the wrapped handler
\* is served once, without the hook.
OneOutcome ==
    /\ [](served # NothingServed =>
             \/ EndsInError(served) /\ ~EndsLimited(served) /\ ~EndsServed(served)
             \/ ~EndsInError(served) /\ EndsLimited(served) /\ ~EndsServed(served)
             \/ ~EndsInError(served) /\ ~EndsLimited(served) /\ EndsServed(served))
    /\ [][\A p \in Procs :
            mw[p].pc # "idle" /\ mw'[p].pc = "idle" => served' # NothingServed]_vars

\* the store fails in UpdateRequest, on a record GetLastRequest had returned
OneOutcomeWitness ==
    /\ EndsInError(served)
    /\ served.err = ErrOther
    /\ served.req.Key # ""
    /\ requestLimits[served.req.Key] = served.req
    /\ lastUpdate[served.req.Key].n >= 1

-----------------------------------------------------------------------------
(* GetLastRequest (SpecLimiter) *)

\* a worker that has a record to create holds the lock, and the record is absent
CreatorHoldsLock ==
    \A p \in Procs :
        mw[p].pc = "create" =>
            /\ limiter.mu = p
            /\ requestLimits[mw[p].req.Key].Key = ""

\* C18: GetLastRequest returns the stored record when there is one; on NotFound
\* it creates and returns a fresh record, interval 0, last_seen now, expiry now
\* plus the default expiry; any other error is returned without a record being
\* created.  The get-or-create is mutually exclusive among the callers of one
\* process: one caller creates the record and the others read it.
GetOrCreate ==
    /\ []CreatorHoldsLock
    /\ [][\A p \in Procs :
            /\ mw[p].pc = "idle" /\ mw'[p].pc = "update" =>
                  /\ mw'[p].req.Key # ""
                  /\ mw'[p].req = requestLimits[mw'[p].req.Key]
                  /\ requestLimits' = requestLimits
            /\ mw[p].pc = "idle" /\ mw'[p].pc = "create" =>
                  /\ requestLimits[mw'[p].req.Key].Key = ""
                  /\ mw'[p].req.Interval = 0
                  /\ mw'[p].req.LastSeen = now
                  /\ mw'[p].req.Expiry = now + limiter.defaultExpireTime
                  /\ requestLimits' = requestLimits
            /\ mw[p].pc = "create" /\ mw'[p].pc = "update" =>
                  /\ mw'[p].req = mw[p].req
                  /\ requestLimits' = [requestLimits EXCEPT ![mw[p].req.Key] = mw[p].req]
            /\ mw[p].pc = "create" /\ mw'[p].pc = "idle" =>
                  /\ served'.err # Nil
                  /\ requestLimits' = requestLimits
            /\ mw[p].pc = "idle" /\ served'.err # Nil /\ served'.req.Key = "" =>
                  /\ mw' = mw
                  /\ requestLimits' = requestLimits]_vars

\* one worker has created the record and the other has read it: both go on with
\* the fresh record, which no UpdateRequest has touched yet
GetOrCreateWitness ==
    /\ \A p \in Procs : mw[p].pc = "update" /\ mw[p].req.Key # ""
    /\ \A p, q \in Procs : mw[p].req = mw[q].req
    /\ \A p \in Procs :
          /\ requestLimits[mw[p].req.Key] = mw[p].req
          /\ mw[p].req.Interval = 0
          /\ lastUpdate[mw[p].req.Key].n = 0

-----------------------------------------------------------------------------
(* The stored polling interval (SpecSeq) *)

\* C19: every stored DeviceToken has a poll_interval_seconds of at least 5, and
\* a multiple of 5: D1 stores 5, and a poll stores the interval it read plus 5,
\* or 5.
IntervalAtLeastFive ==
    /\ \A d \in DeviceCodes :
          deviceTokens[d].DeviceCode # "" =>
              /\ deviceTokens[d].PollIntervalSeconds >= 5
              /\ deviceTokens[d].PollIntervalSeconds % 5 = 0
    /\ delivered.handler = "D5" /\ delivered.step = "pending" =>
          \/ delivered.pollInterval = delivered.deviceToken.PollIntervalSeconds + 5
          \/ delivered.pollInterval = 5

\* a poll that came in time has stored 5 over an interval that an earlier poll,
\* too fast, had raised to 10
IntervalAtLeastFiveWitness ==
    /\ delivered.handler = "D5"
    /\ delivered.step = "pending"
    /\ delivered.deviceToken.PollIntervalSeconds = 10
    /\ deviceTokens[delivered.deviceCode].PollIntervalSeconds = 5

-----------------------------------------------------------------------------
(* The fields each handler writes (Spec) *)

\* a step of handler h: one that ends a request of h, or one in which a worker
\* starts or goes on with a request of h
StepOf(h) ==
    \/ delivered'.handler = h
    \/ \E p \in Procs :
          /\ frame'[p] # frame[p]
          /\ frame[p].handler = h \/ frame'[p].handler = h

\* C20: a poll never changes the status or the token of a DeviceToken, also when
\* its update is stored after a concurrent callback completed the record; a
\* callback that succeeds never changes last_request_time, poll_interval_seconds
\* or expiry; and a callback that fails, at whatever step, leaves the DeviceToken
\* as it was.
OwnFieldsOnly ==
    [][/\ StepOf("D5") =>
              \A d \in DeviceCodes :
                  /\ deviceTokens'[d].Status = deviceTokens[d].Status
                  /\ deviceTokens'[d].Token = deviceTokens[d].Token
       /\ StepOf("D4") =>
              IF delivered'.step = "deviceSuccess"
              THEN \A d \in DeviceCodes :
                      /\ deviceTokens'[d].LastRequestTime = deviceTokens[d].LastRequestTime
                      /\ deviceTokens'[d].PollIntervalSeconds
                             = deviceTokens[d].PollIntervalSeconds
                      /\ deviceTokens'[d].Expiry = deviceTokens[d].Expiry
              ELSE deviceTokens' = deviceTokens]_vars

\* a callback has completed a record which a poll had updated since the callback
\* read it, and what the poll stored is still there
OwnFieldsOnlyWitness ==
    /\ delivered.handler = "D4"
    /\ delivered.step = "deviceSuccess"
    /\ delivered.deviceToken.PollIntervalSeconds = InitialPollInterval
    /\ deviceTokens[delivered.deviceCode].PollIntervalSeconds
           = InitialPollInterval + PollIncrement
    /\ deviceTokens[delivered.deviceCode].Status = deviceTokenComplete
    /\ deviceTokens[delivered.deviceCode].Token = TokenOf(delivered.code)

====
